---- MODULE Spec2Model ----
(***************************************************************************)
(* Control plane of the dfs block filesystem: the path model, the          *)
(* namespace tree (FsNode), the open-file table, the replica map and the   *)
(* request handler, as state machines over the handler's fields.           *)
(*                                                                         *)
(* Conventions.  A Rust char is its Unicode scalar value, and a String /   *)
(* Arc<str> is the sequence of its chars; Text(<<"a", "/", "f">>) writes   *)
(* the text a/f.  Option<T> is a sequence of length at most one (None ==   *)
(* <<>>, Some(x) == <<x>>).  A HashMap is a function whose DOMAIN is the   *)
(* key set.  An Instant is a natural number of seconds, a Duration too.    *)
(***************************************************************************)
EXTENDS Integers, Sequences, FiniteSets, TLC

VARIABLES
    virt_fs,            \* Handler.virt_fs : FsNode
    open_table,         \* Handler.open_table : OpenFileTable.map
    store_statuses,     \* Handler.store_statuses : StoreStatusesMap.map
    replicated_blocks,  \* Handler.replicated_blocks : ReplicatedBlocksMap.map
    clock,              \* the value Instant::now() returns
    resp,               \* value returned by the last call
    last,               \* the last step: the call and its arguments, or a clock tick
    holds               \* per client and path: what the client believes it holds

vars == <<virt_fs, open_table, store_statuses, replicated_blocks,
          clock, resp, last, holds>>

(***************************************************************************)
(* Bounds of the model.                                                    *)
(***************************************************************************)
MaxTime == 61      \* the clock stops advancing past this instant
MaxNow == 3        \* instants 0..MaxNow handed to the table operations
MaxTtl == 2        \* ttl values 0..MaxTtl handed to clear_timeout
MaxHolders == 2    \* a read-open is not issued beyond this holder count
MaxStores == 2     \* a report is not issued beyond this confirming-list length
MaxUriLen == 4     \* texts of up to this many characters are handed to from_uri

(***************************************************************************)
(* Program constants.                                                      *)
(***************************************************************************)
OPEN_LEASE_TTL == 60
REPLICATION == 3

(***************************************************************************)
(* Generic helpers: Option and HashMap.                                    *)
(***************************************************************************)
None == <<>>
Some(x) == <<x>>
IsSome(o) == Len(o) = 1
Unwrap(o) == o[1]

EmptyMap == <<>>
MapInsert(m, k, v) == [x \in (DOMAIN m) \cup {k} |-> IF x = k THEN v ELSE m[x]]
MapRemove(m, k) == [x \in (DOMAIN m) \ {k} |-> m[x]]
MapGet(m, k) == IF k \in DOMAIN m THEN Some(m[k]) ELSE None

\* Instant::duration_since: saturates to zero when `earlier` is later.
duration_since(now, earlier) == IF now >= earlier THEN now - earlier ELSE 0

(***************************************************************************)
(* Path model: PathSplit::from_uri and PathCursor   (fs/virt.rs)           *)
(***************************************************************************)
\* The scalar value of the chars that the texts of this module are written
\* with, and a text written char by char.
CodePoint(c) ==
    CASE c = "a"  -> 97
      [] c = "f"  -> 102
      [] c = "/"  -> 47
      [] c = " "  -> 32
      [] c = "\t" -> 9

RECURSIVE Text(_)
Text(s) == IF s = <<>> THEN <<>> ELSE <<CodePoint(Head(s))>> \o Text(Tail(s))

\* char::is_whitespace, the test that str::trim applies: the 25 code points
\* with the Unicode White_Space property.  U+0009..U+000D, U+0020, U+0085,
\* U+00A0, U+1680, U+2000..U+200A, U+2028, U+2029, U+202F, U+205F, U+3000.
IsWhitespace(c) ==
    \/ c \in 9..13
    \/ c \in {32, 133, 160, 5760}
    \/ c \in 8192..8202
    \/ c \in {8232, 8233, 8239, 8287, 12288}

RECURSIVE trim_start(_)
trim_start(s) ==
    IF s = <<>> THEN s
    ELSE IF IsWhitespace(Head(s)) THEN trim_start(Tail(s)) ELSE s

RECURSIVE trim_end(_)
trim_end(s) ==
    IF s = <<>> THEN s
    ELSE IF IsWhitespace(s[Len(s)]) THEN trim_end(SubSeq(s, 1, Len(s) - 1)) ELSE s

trim(s) == trim_end(trim_start(s))

\* str::split('/'): the pieces between separators, empty pieces included.
RECURSIVE split_from(_, _, _)
split_from(s, i, piece) ==
    IF i > Len(s) THEN <<piece>>
    ELSE IF s[i] = CodePoint("/") THEN <<piece>> \o split_from(s, i + 1, <<>>)
    ELSE split_from(s, i + 1, Append(piece, s[i]))

split(s) == split_from(s, 1, <<>>)

\* PathSplit::from_uri: trim the text, split on '/', keep the pieces that are
\* not blank after trimming (the kept piece itself is not trimmed).
from_uri(path_str) ==
    SelectSeq(split(trim(path_str)), LAMBDA s : trim(s) # <<>>)

segs(path_split) == path_split

\* PathCursor::new
PathCursor_new(path_split) ==
    IF Len(segs(path_split)) = 0 THEN None
    ELSE Some([path_split |-> path_split, curr |-> 0])

\* PathCursor::curr (the source indexes from 0)
PathCursor_curr(c) == segs(c.path_split)[c.curr + 1]

\* PathCursor::next
PathCursor_next(c) ==
    IF c.curr + 1 = Len(segs(c.path_split)) THEN None
    ELSE Some([path_split |-> c.path_split, curr |-> c.curr + 1])

(***************************************************************************)
(* Open-file table   (fs/virt.rs, OpenFileAttribute and OpenFileTable)     *)
(* Every table operation returns [map, res].                               *)
(***************************************************************************)
OpenFileAttribute_new(write, now) ==
    [write |-> write, last_lease |-> now, holders |-> 1]

OpenFileAttribute_read(attr) ==
    IF attr.write THEN attr ELSE [attr EXCEPT !.holders = @ + 1]

OpenFileAttribute_write(attr) == attr.write

\* variant: lease rebuilds the attribute the way new() does
OpenFileAttribute_lease_renew(attr, now) ==
    [attr EXCEPT !.last_lease = now, !.holders = 1]

OpenFileAttribute_lease(attr, now) == [attr EXCEPT !.last_lease = now]

\* usize::saturating_sub(1)
OpenFileAttribute_close(attr) ==
    [attr EXCEPT !.holders = IF @ >= 1 THEN @ - 1 ELSE 0]

\* variant: never reports free, so close keeps an entry with no holder
OpenFileAttribute_is_free_never(attr) == attr.holders < 0

OpenFileAttribute_is_free(attr) == attr.holders = 0

\* variant: `<=` written for `<`
OpenFileAttribute_is_timeout_le(attr, ttl, now) ==
    ttl <= duration_since(now, attr.last_lease)

OpenFileAttribute_is_timeout(attr, ttl, now) ==
    ttl < duration_since(now, attr.last_lease)

OpenFileTable_new == EmptyMap

Ok == [tag |-> "Ok"]
Err(e) == [tag |-> "Err", err |-> e]
Panic(at) == [tag |-> "Panic", at |-> at]

\* variant: a reader joining an entry also renews its lease
OpenFileTable_open_renew(map, path, write, now) ==
    IF path \in DOMAIN map /\ (OpenFileAttribute_write(map[path]) \/ write)
    THEN [map |-> map, res |-> Err("OpenExclusionError")]
    ELSE IF path \notin DOMAIN map
    THEN [map |-> MapInsert(map, path, OpenFileAttribute_new(write, now)),
          res |-> Ok]
    ELSE [map |-> [map EXCEPT ![path] =
                       OpenFileAttribute_lease(OpenFileAttribute_read(@), now)],
          res |-> Ok]

\* variant: the exclusion test written with && for ||
OpenFileTable_open_and(map, path, write, now) ==
    IF path \in DOMAIN map /\ (OpenFileAttribute_write(map[path]) /\ write)
    THEN [map |-> map, res |-> Err("OpenExclusionError")]
    ELSE IF path \notin DOMAIN map
    THEN [map |-> MapInsert(map, path, OpenFileAttribute_new(write, now)),
          res |-> Ok]
    ELSE [map |-> [map EXCEPT ![path] = OpenFileAttribute_read(@)],
          res |-> Ok]

OpenFileTable_open(map, path, write, now) ==
    IF path \in DOMAIN map /\ (OpenFileAttribute_write(map[path]) \/ write)
    THEN [map |-> map, res |-> Err("OpenExclusionError")]
    ELSE IF path \notin DOMAIN map
    THEN [map |-> MapInsert(map, path, OpenFileAttribute_new(write, now)),
          res |-> Ok]
    ELSE [map |-> [map EXCEPT ![path] = OpenFileAttribute_read(@)],
          res |-> Ok]

OpenFileTable_lease(map, path, now) ==
    IF path \notin DOMAIN map
    THEN [map |-> map, res |-> Err("LeaseNotFoundError")]
    ELSE [map |-> [map EXCEPT ![path] = OpenFileAttribute_lease(@, now)],
          res |-> Ok]

\* variant: the entry is removed whatever the count
OpenFileTable_close_always_remove(map, path) ==
    IF path \notin DOMAIN map THEN [map |-> map, res |-> Ok]
    ELSE [map |-> MapRemove(map, path), res |-> Ok]

OpenFileTable_close(map, path) ==
    IF path \notin DOMAIN map THEN [map |-> map, res |-> Ok]
    ELSE LET attr == OpenFileAttribute_close(map[path])
         IN  IF OpenFileAttribute_is_free(attr)
             THEN [map |-> MapRemove(map, path), res |-> Ok]
             ELSE [map |-> [map EXCEPT ![path] = attr], res |-> Ok]

OpenFileTable_clear_timeout(map, ttl, now) ==
    LET timed_out == {p \in DOMAIN map : OpenFileAttribute_is_timeout(map[p], ttl, now)}
    IN  [map |-> [p \in (DOMAIN map) \ timed_out |-> map[p]], res |-> Ok]

(***************************************************************************)
(* Namespace tree   (fs/virt.rs, FsNode / Directory / File / FileBlock)    *)
(* A node is [kind |-> "Directory", nodes] or [kind |-> "File", attr,      *)
(* blocks].  Queries return [ok, node] or [ok, err]; create_node returns   *)
(* [node, res] with node the tree after the call.                          *)
(***************************************************************************)
FileAttribute_new(replication) == [replication |-> replication]

File_new(attr) == [kind |-> "File", attr |-> attr, blocks |-> <<>>]

Directory_new == [kind |-> "Directory", nodes |-> EmptyMap]

FileBlock_new(off_range, id) == [off_range |-> off_range, id |-> id]

DirectoryInsertError(node) ==
    [tag |-> "Err", err |-> "DirectoryInsertError", node |-> node]

\* Directory::insert returns [dir, res]
Directory_insert(self, key, node) ==
    IF key \in DOMAIN self.nodes
    THEN [dir |-> self, res |-> DirectoryInsertError(node)]
    ELSE [dir |-> [self EXCEPT !.nodes = MapInsert(@, key, node)], res |-> Ok]

\* the multiset of nodes handed to `visit`, as node -> number of visits
\* (HashMap::values has no specified order)
VisitAll(nodes) ==
    [n \in {nodes[k] : k \in DOMAIN nodes} |->
        Cardinality({k \in DOMAIN nodes : nodes[k] = n})]

RECURSIVE FsNode_list(_, _)
FsNode_list(self, path) ==
    IF ~IsSome(path)
    THEN IF self.kind = "Directory"
         THEN [ok |-> TRUE, visited |-> VisitAll(self.nodes)]
         ELSE [ok |-> TRUE, visited |-> VisitAll(<<self>>)]
    ELSE LET cur == Unwrap(path) IN
         IF self.kind = "Directory"
         THEN IF PathCursor_curr(cur) \notin DOMAIN self.nodes
              THEN [ok |-> FALSE, err |-> "FileNotExist"]
              ELSE FsNode_list(self.nodes[PathCursor_curr(cur)], PathCursor_next(cur))
         ELSE [ok |-> FALSE, err |-> "DirectoryNotExist"]

\* variant: the two query errors are exchanged
RECURSIVE FsNode_get_swapped(_, _)
FsNode_get_swapped(self, path) ==
    IF ~IsSome(path) THEN [ok |-> TRUE, node |-> self]
    ELSE LET cur == Unwrap(path) IN
         IF self.kind = "Directory"
         THEN IF PathCursor_curr(cur) \notin DOMAIN self.nodes
              THEN [ok |-> FALSE, err |-> "DirectoryNotExist"]
              ELSE FsNode_get_swapped(self.nodes[PathCursor_curr(cur)], PathCursor_next(cur))
         ELSE [ok |-> FALSE, err |-> "FileNotExist"]

RECURSIVE FsNode_get(_, _)
FsNode_get(self, path) ==
    IF ~IsSome(path) THEN [ok |-> TRUE, node |-> self]
    ELSE LET cur == Unwrap(path) IN
         IF self.kind = "Directory"
         THEN IF PathCursor_curr(cur) \notin DOMAIN self.nodes
              THEN [ok |-> FALSE, err |-> "FileNotExist"]
              ELSE FsNode_get(self.nodes[PathCursor_curr(cur)], PathCursor_next(cur))
         ELSE [ok |-> FALSE, err |-> "DirectoryNotExist"]

\* get_mut walks exactly as get does; what the caller does through the
\* returned reference is modelled where the caller is.
FsNode_get_mut(self, path) == FsNode_get(self, path)

\* variant: the terminal name is inserted without the is_some test
RECURSIVE FsNode_create_node_overwrite(_, _, _)
FsNode_create_node_overwrite(self, path, new_node) ==
    IF self.kind = "File"
    THEN [node |-> self, res |-> "DirectoryNotExist"]
    ELSE LET child == PathCursor_next(path)
             name  == PathCursor_curr(path)
         IN  IF IsSome(child)
             THEN IF name \notin DOMAIN self.nodes
                  THEN [node |-> self, res |-> "DirectoryNotExist"]
                  ELSE LET r == FsNode_create_node_overwrite(self.nodes[name],
                                    Unwrap(child), new_node)
                       IN  [node |-> [self EXCEPT !.nodes[name] = r.node],
                            res  |-> r.res]
             ELSE [node |-> [self EXCEPT !.nodes = MapInsert(@, name, new_node)],
                   res  |-> "Ok"]

RECURSIVE FsNode_create_node(_, _, _)
FsNode_create_node(self, path, new_node) ==
    IF self.kind = "File"
    THEN [node |-> self, res |-> "DirectoryNotExist"]
    ELSE LET child == PathCursor_next(path)
             name  == PathCursor_curr(path)
         IN  IF IsSome(child)
             THEN IF name \notin DOMAIN self.nodes
                  THEN [node |-> self, res |-> "DirectoryNotExist"]
                  ELSE LET r == FsNode_create_node(self.nodes[name], Unwrap(child), new_node)
                       IN  [node |-> [self EXCEPT !.nodes[name] = r.node],
                            res  |-> r.res]
             ELSE IF name \in DOMAIN self.nodes
                  THEN [node |-> self, res |-> "FileExist"]
                  ELSE [node |-> [self EXCEPT !.nodes = MapInsert(@, name, new_node)],
                        res  |-> "Ok"]

(***************************************************************************)
(* Replica map   (fs/block.rs, ReplicatedBlock and ReplicatedBlocksMap)    *)
(* Every map operation returns [map, res]; res is Ok, Err(..) or Panic(..) *)
(* (a failed assert!).                                                     *)
(***************************************************************************)
BlockBody_new(size) == [size |-> size]

ReportedBlock_new(id, body) == [id |-> id, body |-> body]

ReplicatedBlock_new(body, virt_path) ==
    [body |-> body, stores |-> <<>>, virt_path |-> virt_path]

CorruptedBlockError(store) ==
    [tag |-> "Err", err |-> "CorruptedBlockError", store |-> store]

\* variant: the descriptor comparison is left out
ReplicatedBlock_push_unchecked(b, store, body) ==
    [block |-> [b EXCEPT !.stores = Append(@, store)], res |-> Ok]

\* ReplicatedBlock::push returns [block, res]
ReplicatedBlock_push(b, store, body) ==
    IF b.body # body
    THEN [block |-> b, res |-> CorruptedBlockError(store)]
    ELSE [block |-> [b EXCEPT !.stores = Append(@, store)], res |-> Ok]

ReplicatedBlocksMap_new == EmptyMap

ReplicatedBlocksMap_insert(map, id, block) ==
    IF id \in DOMAIN map
    THEN [map |-> map, res |-> Panic("block.rs:22")]
    ELSE [map |-> MapInsert(map, id, block), res |-> Ok]

ReplicatedBlocksMap_remove(map, id) ==
    IF id \notin DOMAIN map
    THEN [map |-> map, res |-> Panic("block.rs:26")]
    ELSE [map |-> MapRemove(map, id), res |-> Ok]

ReplicatedBlocksMap_push_store(map, store, block) ==
    IF block.id \notin DOMAIN map
    THEN [map |-> map, res |-> CorruptedBlockError(store)]
    ELSE LET r == ReplicatedBlock_push(map[block.id], store, block.body)
         IN  [map |-> [map EXCEPT ![block.id] = r.block], res |-> r.res]

ReplicatedBlocksMap_stores(map, block) ==
    IF block \in DOMAIN map THEN map[block].stores ELSE <<>>

(***************************************************************************)
(* Request handler   (server/control/handler.rs)                           *)
(* Each handler operator returns [virt_fs, open_table, resp]: the two      *)
(* fields the handler writes, after the call, and the value returned.      *)
(* resp is a Resp variant or Panic(..) where the code reaches todo!().     *)
(***************************************************************************)
Resp_None == [tag |-> "None"]
Resp_OpenResp == [tag |-> "OpenResp"]
Resp_OpenLeaseResp(permitted) == [tag |-> "OpenLeaseResp", permitted |-> permitted]
Resp_AllocBlockResp_Rejected == [tag |-> "AllocBlockResp", body |-> "Rejected"]

\* Handler::handle_timer: the sweep, then todo!()
handle_timer(fs, table, now) ==
    [virt_fs    |-> fs,
     open_table |-> OpenFileTable_clear_timeout(table, OPEN_LEASE_TTL, now).map,
     resp       |-> Panic("handler.rs:45")]

\* the closure handed to create_node by the OpenReq arm
new_file_node == File_new(FileAttribute_new(REPLICATION))

\* ControlReq::OpenReq arm
handle_req_OpenReq(fs, table, open_req, now) ==
    LET path == from_uri(open_req.path)
        path_cursor == PathCursor_new(path)
        rejected == [virt_fs |-> fs, open_table |-> table, resp |-> Resp_OpenResp]
        register(fs1) ==
            LET res == OpenFileTable_open(table, path, open_req.write, now)
            IN  [virt_fs    |-> fs1,
                 open_table |-> res.map,
                 resp       |-> IF res.res.tag = "Ok" THEN Resp_None ELSE Resp_OpenResp]
    IN  IF open_req.write
        THEN IF ~IsSome(path_cursor) THEN rejected
             ELSE LET res == FsNode_create_node(fs, Unwrap(path_cursor), new_file_node)
                  IN  IF res.res = "DirectoryNotExist" THEN rejected
                      ELSE register(res.node)
        ELSE LET got == FsNode_get(fs, path_cursor)
             IN  IF ~got.ok THEN rejected
                 ELSE IF got.node.kind # "File" THEN rejected
                 ELSE register(fs)

\* ControlReq::OpenLeaseReq arm
handle_req_OpenLeaseReq(fs, table, open_lease_req, now) ==
    LET path == from_uri(open_lease_req.path)
        res == OpenFileTable_lease(table, path, now)
    IN  [virt_fs    |-> fs,
         open_table |-> res.map,
         resp       |-> Resp_OpenLeaseResp(res.res.tag = "Ok")]

\* ControlReq::CloseReq arm
handle_req_CloseReq(fs, table, close_req, now) ==
    LET path == from_uri(close_req.path)
    IN  [virt_fs    |-> fs,
         open_table |-> OpenFileTable_close(table, path).map,
         resp       |-> Resp_None]

\* the node at `path` replaced by `node` (a write through a get_mut reference)
RECURSIVE FsNode_with(_, _, _)
FsNode_with(self, path, node) ==
    IF ~IsSome(path) THEN node
    ELSE LET cur == Unwrap(path)
             name == PathCursor_curr(cur)
         IN  [self EXCEPT !.nodes[name] = FsNode_with(@, PathCursor_next(cur), node)]

\* variant: the FileBlock is pushed before the contiguity test
handle_req_AllocBlockReq_push_first(fs, table, alloc_block_req, now) ==
    LET path == PathCursor_new(from_uri(alloc_block_req.path))
        res == FsNode_get_mut(fs, path)
        off_range == alloc_block_req.off_range
    IN  IF ~res.ok \/ res.node.kind = "Directory"
        THEN [virt_fs |-> fs, open_table |-> table,
              resp |-> Resp_AllocBlockResp_Rejected]
        ELSE LET blocks == res.node.blocks
                 pushed == [res.node EXCEPT
                               !.blocks = Append(@, FileBlock_new(off_range, "new"))]
                 fs1 == FsNode_with(fs, path, pushed)
             IN  IF blocks # <<>> /\ off_range[1] # blocks[Len(blocks)].off_range[2]
                 THEN [virt_fs |-> fs1, open_table |-> table,
                       resp |-> Resp_AllocBlockResp_Rejected]
                 ELSE [virt_fs |-> fs1, open_table |-> table,
                       resp |-> Panic("handler.rs:120")]

\* ControlReq::AllocBlockReq arm.  Past the three rejections the code
\* evaluates todo!() (line 120) before it builds or pushes the FileBlock, so
\* lines 121-126 never run and the file is left as it was.
handle_req_AllocBlockReq(fs, table, alloc_block_req, now) ==
    LET path == PathCursor_new(from_uri(alloc_block_req.path))
        res == FsNode_get_mut(fs, path)
        rejected == [virt_fs |-> fs, open_table |-> table,
                     resp |-> Resp_AllocBlockResp_Rejected]
        off_range == alloc_block_req.off_range
    IN  IF ~res.ok THEN rejected
        ELSE IF res.node.kind = "Directory" THEN rejected
        ELSE LET blocks == res.node.blocks
             IN  IF blocks # <<>> /\ off_range[1] # blocks[Len(blocks)].off_range[2]
                 THEN rejected
                 ELSE [virt_fs |-> fs, open_table |-> table,
                       resp |-> Panic("handler.rs:120")]

\* ControlReq::BlockReportReq arm: todo!()
handle_req_BlockReportReq(fs, table, block_report_req, now) ==
    [virt_fs |-> fs, open_table |-> table, resp |-> Panic("handler.rs:128")]

(***************************************************************************)
(* Storage-node registry   (store.rs)                                      *)
(***************************************************************************)
StoreConfig_new(addr) == [addr |-> addr]

StoreStatus_new(config) == [config |-> config, last_heartbeat |-> None]

StoreStatus_beat(status, now) == [status EXCEPT !.last_heartbeat = Some(now)]

\* variant: `<` written for `<=`
StoreStatus_is_alive_lt(status, ttl, now) ==
    IF ~IsSome(status.last_heartbeat) THEN FALSE
    ELSE duration_since(now, Unwrap(status.last_heartbeat)) < ttl

StoreStatus_is_alive(status, ttl, now) ==
    IF ~IsSome(status.last_heartbeat) THEN FALSE
    ELSE duration_since(now, Unwrap(status.last_heartbeat)) <= ttl

StoreStatusesMap_new == EmptyMap

\* StoreStatusesMap::insert returns [map, res]; a registered id fails the
\* assert!
StoreStatusesMap_insert(map, store, config) ==
    IF store \in DOMAIN map
    THEN [map |-> map, res |-> Panic("store.rs:23")]
    ELSE [map |-> MapInsert(map, store, StoreStatus_new(config)), res |-> Ok]

StoreStatusesMap_get_mut(map, store) == MapGet(map, store)

(***************************************************************************)
(* Inputs.                                                                 *)
(***************************************************************************)
\* request texts: "", "f", "a", "a/f", " /a//f", "f/a"
Uris ==
    { <<>>,
      Text(<<"f">>),
      Text(<<"a">>),
      Text(<<"a", "/", "f">>),
      Text(<<" ", "/", "a", "/", "/", "f">>),
      Text(<<"f", "/", "a">>) }

\* the paths the table operations are called with directly
TablePaths == { from_uri(Text(<<"f">>)), from_uri(Text(<<"a", "/", "f">>)) }

\* The clients of the open-file table.  The table itself keeps no client
\* identity; holds records, beside it, what each client has been granted:
\* "none", "read" or "write" while the grant stands, "evicted" once a sweep
\* has removed the entry and the client has not yet sent its close.
Clients == {"c1", "c2"}
NoHolds == [c \in Clients |-> [p \in TablePaths |-> "none"]]

OffRanges == { <<0, 100>>, <<50, 150>>, <<100, 200>>, <<200, 300>> }

BlockIds == {"b0", "b1"}
BlockSizes == {100, 200}
StoreIds == {"s1", "s2"}
ReportTypes == {"Add", "Remove", "Full"}
TickSteps == {30, 31}

\* The arguments Handler::new is given.  Boot0 is the empty control node.
\* Boot1 is a control node restarted from a snapshot: directory a holding
\* file a/f with blocks [0,100) and [100,200), each with its replica record.
PathAF == from_uri(Text(<<"a", "/", "f">>))

SnapshotFile ==
    [File_new(FileAttribute_new(REPLICATION)) EXCEPT
        !.blocks = << FileBlock_new(<<0, 100>>, "b0"),
                      FileBlock_new(<<100, 200>>, "b1") >>]

SnapshotTree ==
    LET withDir == FsNode_create_node(Directory_new,
                       Unwrap(PathCursor_new(from_uri(Text(<<"a">>)))), Directory_new).node
    IN  FsNode_create_node(withDir, Unwrap(PathCursor_new(PathAF)), SnapshotFile).node

SnapshotBlocks ==
    LET m0 == ReplicatedBlocksMap_new
        m1 == ReplicatedBlocksMap_insert(m0, "b0",
                  ReplicatedBlock_new(BlockBody_new(100), PathAF)).map
    IN  ReplicatedBlocksMap_insert(m1, "b1",
                  ReplicatedBlock_new(BlockBody_new(100), PathAF)).map

Boots ==
    { [virt_fs |-> Directory_new, replicated_blocks |-> ReplicatedBlocksMap_new],
      [virt_fs |-> SnapshotTree,  replicated_blocks |-> SnapshotBlocks] }

InitStores == [s \in StoreIds |-> StoreStatus_new(StoreConfig_new(s))]

Running == resp.tag # "Panic"

(***************************************************************************)
(* Specification of the open-file table used on its own: any sequence of  *)
(* open, lease, close and clear_timeout calls on an empty table.           *)
(***************************************************************************)
InitTable ==
    /\ virt_fs = Directory_new
    /\ open_table = OpenFileTable_new
    /\ store_statuses = InitStores
    /\ replicated_blocks = ReplicatedBlocksMap_new
    /\ clock = 0
    /\ resp = [tag |-> "Init"]
    /\ last = [op |-> "new"]
    /\ holds = NoHolds

TableOpen(path, write, now) ==
    /\ (path \in DOMAIN open_table /\ ~write /\ ~open_table[path].write)
           => open_table[path].holders < MaxHolders
    /\ LET r == OpenFileTable_open(open_table, path, write, now)
       IN  open_table' = r.map /\ resp' = r.res
    /\ last' = [op |-> "open", path |-> path, write |-> write, now |-> now]
    /\ UNCHANGED <<holds, virt_fs, store_statuses, replicated_blocks, clock>>

TableLease(path, now) ==
    /\ LET r == OpenFileTable_lease(open_table, path, now)
       IN  open_table' = r.map /\ resp' = r.res
    /\ last' = [op |-> "lease", path |-> path, now |-> now]
    /\ UNCHANGED <<holds, virt_fs, store_statuses, replicated_blocks, clock>>

TableClose(path) ==
    /\ LET r == OpenFileTable_close(open_table, path)
       IN  open_table' = r.map /\ resp' = r.res
    /\ last' = [op |-> "close", path |-> path]
    /\ UNCHANGED <<holds, virt_fs, store_statuses, replicated_blocks, clock>>

TableClearTimeout(ttl, now) ==
    /\ LET r == OpenFileTable_clear_timeout(open_table, ttl, now)
       IN  open_table' = r.map /\ resp' = r.res
    /\ last' = [op |-> "clear_timeout", ttl |-> ttl, now |-> now]
    /\ UNCHANGED <<holds, virt_fs, store_statuses, replicated_blocks, clock>>

NextTable ==
    \/ \E path \in TablePaths, write \in BOOLEAN, now \in 0..MaxNow :
           TableOpen(path, write, now)
    \/ \E path \in TablePaths, now \in 0..MaxNow : TableLease(path, now)
    \/ \E path \in TablePaths : TableClose(path)
    \/ \E ttl \in 0..MaxTtl, now \in 0..MaxNow : TableClearTimeout(ttl, now)

SpecTable == InitTable /\ [][NextTable]_vars

(***************************************************************************)
(* Specification of the replica map used on its own.                       *)
(***************************************************************************)
InitBlocks == InitTable

BlocksInsert(id, size, path) ==
    /\ Running
    /\ LET r == ReplicatedBlocksMap_insert(replicated_blocks, id,
                    ReplicatedBlock_new(BlockBody_new(size), path))
       IN  replicated_blocks' = r.map /\ resp' = r.res
    /\ last' = [op |-> "insert", id |-> id, size |-> size]
    /\ UNCHANGED <<holds, virt_fs, open_table, store_statuses, clock>>

BlocksRemove(id) ==
    /\ Running
    /\ LET r == ReplicatedBlocksMap_remove(replicated_blocks, id)
       IN  replicated_blocks' = r.map /\ resp' = r.res
    /\ last' = [op |-> "remove", id |-> id]
    /\ UNCHANGED <<holds, virt_fs, open_table, store_statuses, clock>>

BlocksPushStore(store, id, size) ==
    /\ Running
    /\ id \in DOMAIN replicated_blocks
           => Len(replicated_blocks[id].stores) < MaxStores
    /\ LET r == ReplicatedBlocksMap_push_store(replicated_blocks, store,
                    ReportedBlock_new(id, BlockBody_new(size)))
       IN  replicated_blocks' = r.map /\ resp' = r.res
    /\ last' = [op |-> "push_store", store |-> store, id |-> id, size |-> size]
    /\ UNCHANGED <<holds, virt_fs, open_table, store_statuses, clock>>

NextBlocks ==
    \/ \E id \in BlockIds, size \in BlockSizes : BlocksInsert(id, size, PathAF)
    \/ \E id \in BlockIds : BlocksRemove(id)
    \/ \E store \in StoreIds, id \in BlockIds, size \in BlockSizes :
           BlocksPushStore(store, id, size)

SpecBlocks == InitBlocks /\ [][NextBlocks]_vars

(***************************************************************************)
(* Specification of the request handler: requests and timer ticks in any   *)
(* order, one at a time, on the state Handler::new was given.  A panic     *)
(* ends the run.                                                           *)
(***************************************************************************)
Init ==
    /\ \E boot \in Boots :
           /\ virt_fs = boot.virt_fs
           /\ replicated_blocks = boot.replicated_blocks
    /\ open_table = OpenFileTable_new
    /\ store_statuses = InitStores
    /\ clock = 0
    /\ resp = [tag |-> "Init"]
    /\ last = [op |-> "new"]
    /\ holds = NoHolds

Handled(r) ==
    /\ virt_fs' = r.virt_fs
    /\ open_table' = r.open_table
    /\ resp' = r.resp
    /\ UNCHANGED <<holds, store_statuses, replicated_blocks, clock>>

HandleOpenReq(uri, write) ==
    /\ Running
    /\ LET path == from_uri(uri)
       IN  (path \in DOMAIN open_table /\ ~write /\ ~open_table[path].write)
               => open_table[path].holders < MaxHolders
    /\ Handled(handle_req_OpenReq(virt_fs, open_table,
                                  [path |-> uri, write |-> write], clock))
    /\ last' = [op |-> "OpenReq", uri |-> uri, write |-> write]

HandleOpenLeaseReq(uri) ==
    /\ Running
    /\ Handled(handle_req_OpenLeaseReq(virt_fs, open_table, [path |-> uri], clock))
    /\ last' = [op |-> "OpenLeaseReq", uri |-> uri]

HandleCloseReq(uri) ==
    /\ Running
    /\ Handled(handle_req_CloseReq(virt_fs, open_table, [path |-> uri], clock))
    /\ last' = [op |-> "CloseReq", uri |-> uri]

HandleAllocBlockReq(uri, off_range) ==
    /\ Running
    /\ Handled(handle_req_AllocBlockReq(virt_fs, open_table,
                   [path |-> uri, off_range |-> off_range], clock))
    /\ last' = [op |-> "AllocBlockReq", uri |-> uri, off_range |-> off_range]

HandleBlockReportReq(ty, blocks) ==
    /\ Running
    /\ Handled(handle_req_BlockReportReq(virt_fs, open_table,
                   [report |-> [ty |-> ty, body |-> blocks]], clock))
    /\ last' = [op |-> "BlockReportReq", ty |-> ty, blocks |-> blocks]

HandleTimer ==
    /\ Running
    /\ Handled(handle_timer(virt_fs, open_table, clock))
    /\ last' = [op |-> "timer"]

Tick(d) ==
    /\ Running
    /\ clock + d <= MaxTime
    /\ clock' = clock + d
    /\ last' = [op |-> "tick"]
    /\ UNCHANGED <<holds, virt_fs, open_table, store_statuses, replicated_blocks, resp>>

Next ==
    \/ \E uri \in Uris, write \in BOOLEAN : HandleOpenReq(uri, write)
    \/ \E uri \in Uris : HandleOpenLeaseReq(uri)
    \/ \E uri \in Uris : HandleCloseReq(uri)
    \/ \E uri \in Uris, off_range \in OffRanges : HandleAllocBlockReq(uri, off_range)
    \/ \E ty \in ReportTypes,
          blocks \in { <<>>, <<ReportedBlock_new("b0", BlockBody_new(100))>> } :
           HandleBlockReportReq(ty, blocks)
    \/ HandleTimer
    \/ \E d \in TickSteps : Tick(d)

Spec == Init /\ [][Next]_vars

(***************************************************************************)
(* Properties of the open-file table (checked under SpecTable).            *)
(***************************************************************************)

\* C1: open(path, write, now) is rejected with the exclusion error when an
\* entry exists and the entry is a writer or a write is requested; when a
\* reader entry exists and a read is requested it succeeds and the holder
\* count grows by exactly 1; when no entry exists it succeeds and creates an
\* entry with holder count 1, the requested writer flag and last_lease = now.
C1_OpenContract ==
    [][ last'.op = "open" =>
          LET p == last'.path
              w == last'.write
              n == last'.now
          IN  /\ (p \in DOMAIN open_table /\ (open_table[p].write \/ w))
                    => /\ resp'.tag = "Err"
                       /\ resp'.err = "OpenExclusionError"
              /\ (p \in DOMAIN open_table /\ ~open_table[p].write /\ ~w)
                    => /\ resp'.tag = "Ok"
                       /\ p \in DOMAIN open_table'
                       /\ open_table'[p].holders = open_table[p].holders + 1
              /\ (p \notin DOMAIN open_table)
                    => /\ resp'.tag = "Ok"
                       /\ p \in DOMAIN open_table'
                       /\ open_table'[p] = [write |-> w, last_lease |-> n, holders |-> 1]
      ]_vars

\* a second reader has just been admitted to a reader entry
C1_Witness ==
    /\ last.op = "open"
    /\ ~last.write
    /\ resp.tag = "Ok"
    /\ last.path \in DOMAIN open_table
    /\ open_table[last.path].holders = 2

\* C2: every entry has holder count >= 1, and an entry whose writer flag is
\* set has holder count exactly 1.
C2_HolderInvariant ==
    \A p \in DOMAIN open_table :
        /\ open_table[p].holders >= 1
        /\ open_table[p].write => open_table[p].holders = 1

\* a close has just left a reader entry with one holder, beside a writer entry
C2_Witness ==
    /\ last.op = "close"
    /\ last.path \in DOMAIN open_table
    /\ ~open_table[last.path].write
    /\ open_table[last.path].holders = 1
    /\ \E p \in DOMAIN open_table : open_table[p].write

\* C3: close(path) decreases the entry's holder count by exactly 1 and
\* removes the entry exactly when the count reaches 0; with no entry the
\* table is unchanged; entries of other paths are never touched.
C3_CloseContract ==
    [][ last'.op = "close" =>
          LET p == last'.path
          IN  /\ (p \in DOMAIN open_table /\ open_table[p].holders - 1 = 0)
                    => p \notin DOMAIN open_table'
              /\ (p \in DOMAIN open_table /\ open_table[p].holders - 1 # 0)
                    => /\ p \in DOMAIN open_table'
                       /\ open_table'[p].holders = open_table[p].holders - 1
              /\ (p \notin DOMAIN open_table) => open_table' = open_table
              /\ DOMAIN open_table' \subseteq DOMAIN open_table
              /\ \A q \in (DOMAIN open_table) \ {p} :
                     /\ q \in DOMAIN open_table'
                     /\ open_table'[q] = open_table[q]
      ]_vars

\* a close has just taken a reader entry from two holders to one, with the
\* other path's entry in the table
C3_Witness ==
    /\ last.op = "close"
    /\ last.path \in DOMAIN open_table
    /\ open_table[last.path].holders = 1
    /\ ~open_table[last.path].write
    /\ Cardinality(DOMAIN open_table) = 2

\* C4: clear_timeout(ttl, now) removes exactly the entries with
\* (now - last_lease) > ttl, whatever their holder count and writer flag,
\* and leaves every other entry unchanged; equality survives.
C4_SweepContract ==
    [][ last'.op = "clear_timeout" =>
          LET ttl == last'.ttl
              now == last'.now
          IN  /\ DOMAIN open_table' =
                     {p \in DOMAIN open_table : ~(now - open_table[p].last_lease > ttl)}
              /\ \A p \in DOMAIN open_table' : open_table'[p] = open_table[p]
      ]_vars

\* a sweep has just run, one entry survived it with now - last_lease = ttl
\* and the other path's entry is gone
C4_Witness ==
    /\ last.op = "clear_timeout"
    /\ Cardinality(DOMAIN open_table) = 1
    /\ \E p \in DOMAIN open_table :
           /\ last.now - open_table[p].last_lease = last.ttl
           /\ open_table[p].holders = 2

(***************************************************************************)
(* Properties of block allocation (checked under Spec).                    *)
(***************************************************************************)
\* the file nodes of a tree
RECURSIVE FilesOf(_)
FilesOf(node) ==
    IF node.kind = "File" THEN {node}
    ELSE UNION { FilesOf(node.nodes[n]) : n \in DOMAIN node.nodes }

Contiguous(blocks) ==
    \A i \in 1..(Len(blocks) - 1) :
        blocks[i].off_range[2] = blocks[i + 1].off_range[1]

\* what the request text resolves to in tree fs
TargetIn(fs, uri) == FsNode_get(fs, PathCursor_new(from_uri(uri)))

IsFileIn(fs, uri) == TargetIn(fs, uri).ok /\ TargetIn(fs, uri).node.kind = "File"

BlockIdsIn(fs) == UNION { {f.blocks[i].id : i \in 1..Len(f.blocks)} : f \in FilesOf(fs) }

\* C5: after any sequence of AllocateBlock requests every file's block
\* sequence is contiguous: b[i].end = b[i+1].start for adjacent blocks.
C5_BlocksContiguous ==
    \A f \in FilesOf(virt_fs) : Contiguous(f.blocks)

\* an AllocateBlock request has just been answered Rejected for a start
\* offset that does not continue a file of two blocks
C5_Witness ==
    /\ last.op = "AllocBlockReq"
    /\ resp = Resp_AllocBlockResp_Rejected
    /\ IsFileIn(virt_fs, last.uri)
    /\ Len(TargetIn(virt_fs, last.uri).node.blocks) = 2
    /\ last.off_range[1] # TargetIn(virt_fs, last.uri).node.blocks[2].off_range[2]

\* C6: AllocateBlock on a file with no blocks whose range does not start at
\* offset 0 is answered Rejected.
C6_FirstBlockStartsAtZero ==
    [][ ( /\ last'.op = "AllocBlockReq"
          /\ IsFileIn(virt_fs, last'.uri)
          /\ TargetIn(virt_fs, last'.uri).node.blocks = <<>>
          /\ last'.off_range[1] # 0 )
        => resp' = Resp_AllocBlockResp_Rejected
      ]_vars

\* C7: an AllocateBlock request answered Rejected leaves the namespace tree
\* (the file's blocks included), the replica map and the open-file table
\* unchanged.
C7_RejectedAllocNoEffect ==
    [][ (last'.op = "AllocBlockReq" /\ resp' = Resp_AllocBlockResp_Rejected)
        => /\ virt_fs' = virt_fs
           /\ replicated_blocks' = replicated_blocks
           /\ open_table' = open_table
      ]_vars

\* a request on a file with blocks has just been Rejected while the file is
\* held open
C7_Witness ==
    /\ last.op = "AllocBlockReq"
    /\ resp = Resp_AllocBlockResp_Rejected
    /\ IsFileIn(virt_fs, last.uri)
    /\ TargetIn(virt_fs, last.uri).node.blocks # <<>>
    /\ from_uri(last.uri) \in DOMAIN open_table

\* C8: an AllocateBlock request on a file whose range starts at the file's
\* last block end (0 for a file without blocks) is answered Ok with a block
\* identity no file refers to yet, and appends exactly one FileBlock with
\* the requested range; a request on a file with blocks whose start is not
\* the last block end is answered Rejected.
C8_ContiguousAllocSucceeds ==
    [][ (last'.op = "AllocBlockReq" /\ IsFileIn(virt_fs, last'.uri)) =>
          LET blocks == TargetIn(virt_fs, last'.uri).node.blocks
              lastEnd == IF blocks = <<>> THEN 0 ELSE blocks[Len(blocks)].off_range[2]
          IN  /\ (last'.off_range[1] = lastEnd)
                    => /\ resp'.tag = "AllocBlockResp"
                       /\ resp'.body = "Ok"
                       /\ resp'.block \notin BlockIdsIn(virt_fs)
                       /\ IsFileIn(virt_fs', last'.uri)
                       /\ TargetIn(virt_fs', last'.uri).node.blocks =
                              Append(blocks, [off_range |-> last'.off_range,
                                              id |-> resp'.block])
              /\ (blocks # <<>> /\ last'.off_range[1] # lastEnd)
                    => resp' = Resp_AllocBlockResp_Rejected
      ]_vars

\* C9: after every AllocateBlock request that is not Rejected the replica
\* map holds a record, with an empty confirming-store list, for a block
\* identity it did not hold before; and every block identity a file refers
\* to has a record in the replica map.
C9_AllocCreatesReplicaRecord ==
    [][ /\ (last'.op = "AllocBlockReq" /\ resp' # Resp_AllocBlockResp_Rejected)
            => \E id \in (DOMAIN replicated_blocks') \ (DOMAIN replicated_blocks) :
                   replicated_blocks'[id].stores = <<>>
        /\ BlockIdsIn(virt_fs') \subseteq DOMAIN replicated_blocks'
      ]_vars

(***************************************************************************)
(* Properties of the replica map (checked under SpecBlocks).               *)
(***************************************************************************)

\* C10: push_store(store, reported): when the reported descriptor equals the
\* authoritative descriptor of a known block the store id is appended once to
\* that block's confirming list (also when it is already in the list) and
\* nothing else changes; when the descriptor differs or the identity is
\* unknown the call returns a corruption error naming the store and the map
\* is unchanged.
C10_PushStoreContract ==
    [][ last'.op = "push_store" =>
          LET id == last'.id
              store == last'.store
              reported == [size |-> last'.size]
              known == id \in DOMAIN replicated_blocks
          IN  /\ (known /\ replicated_blocks[id].body = reported)
                    => /\ resp'.tag = "Ok"
                       /\ DOMAIN replicated_blocks' = DOMAIN replicated_blocks
                       /\ replicated_blocks'[id] =
                              [replicated_blocks[id] EXCEPT !.stores = Append(@, store)]
                       /\ \A other \in (DOMAIN replicated_blocks) \ {id} :
                              replicated_blocks'[other] = replicated_blocks[other]
              /\ (~known \/ replicated_blocks[id].body # reported)
                    => /\ resp'.tag = "Err"
                       /\ resp'.err = "CorruptedBlockError"
                       /\ resp'.store = store
                       /\ replicated_blocks' = replicated_blocks
      ]_vars

\* the same store has just been appended a second time to a block's list
C10_Witness ==
    /\ last.op = "push_store"
    /\ resp.tag = "Ok"
    /\ last.id \in DOMAIN replicated_blocks
    /\ replicated_blocks[last.id].stores = <<last.store, last.store>>

\* C11: a report of a known block with a mismatched descriptor and a report
\* of a block identity without a record never produce the same result value:
\* whenever push_store is called for an unknown identity, its result differs
\* from the result the same store gets for a mismatched report of any block
\* the map knows.
C11_CorruptionDistinctFromUnknown ==
    [][ (last'.op = "push_store" /\ last'.id \notin DOMAIN replicated_blocks) =>
          \A known \in DOMAIN replicated_blocks :
              \A size \in BlockSizes :
                  BlockBody_new(size) # replicated_blocks[known].body =>
                      ReplicatedBlocksMap_push_store(replicated_blocks, last'.store,
                          ReportedBlock_new(known, BlockBody_new(size))).res # resp'
      ]_vars

(***************************************************************************)
(* Properties of the request handler (checked under Spec).                 *)
(***************************************************************************)
\* what path split p resolves to in tree fs
ResolveIn(fs, p) == FsNode_get(fs, PathCursor_new(p))

\* C12: after any sequence of Open requests every path with an open-file
\* table entry resolves in the namespace tree to a file node (an Open for
\* read or write of a path that resolves to a directory, of the root path or
\* of a path through a missing or non-directory segment is rejected).
C12_OpenEntriesAreFiles ==
    \A p \in DOMAIN open_table :
        /\ ResolveIn(virt_fs, p).ok
        /\ ResolveIn(virt_fs, p).node.kind = "File"

\* C13: no request and no timer tick is fatal: every call of the handler
\* returns a response value, so no panic is ever reached.
C13_NoPanic == resp.tag # "Panic"

(***************************************************************************)
(* The handler serving lease traffic only (Open, OpenLease, Close and the  *)
(* timer) under fair scheduling: the periodic timer keeps firing, time     *)
(* keeps advancing and a waiting client keeps sending Open requests, each  *)
(* for as long as the handler is able to take the step.                    *)
(***************************************************************************)
NextLease ==
    \/ \E uri \in Uris, write \in BOOLEAN : HandleOpenReq(uri, write)
    \/ \E uri \in Uris : HandleOpenLeaseReq(uri)
    \/ \E uri \in Uris : HandleCloseReq(uri)
    \/ HandleTimer
    \/ \E d \in TickSteps : Tick(d)

SpecFair ==
    /\ Init
    /\ [][NextLease]_vars
    /\ WF_vars(HandleTimer)
    /\ WF_vars(\E d \in TickSteps : Tick(d))
    /\ WF_vars(\E uri \in Uris, write \in BOOLEAN : HandleOpenReq(uri, write))

WriteHeld(p) == p \in DOMAIN open_table /\ open_table[p].write

LeaseJustRenewed(p) ==
    /\ last.op = "OpenLeaseReq"
    /\ from_uri(last.uri) = p
    /\ resp = Resp_OpenLeaseResp(TRUE)

\* C14: a write-held path does not stay blocked forever.  An Open for write
\* of a file without an open-file table entry (the holder has closed) is
\* accepted; and a write-held entry whose holder sends no further OpenLease
\* eventually leaves the table (by close or by the timer sweep), so that a
\* retried Open is accepted.
C14_WriteHoldEnds ==
    /\ [][ ( /\ last'.op = "OpenReq"
             /\ last'.write
             /\ IsFileIn(virt_fs, last'.uri)
             /\ from_uri(last'.uri) \notin DOMAIN open_table )
           => resp' = Resp_None ]_vars
    /\ \A p \in TablePaths :
           WriteHeld(p) ~> (~WriteHeld(p) \/ LeaseJustRenewed(p))

\* C15: the lease-timeout sweep is idempotent and the timer handler that
\* performs it can be run repeatedly: a timer tick returns, and running the
\* sweep again with the same ttl and now on the table it left yields that
\* same table.
C15_TimerSweepIdempotent ==
    [][ last'.op = "timer" =>
          /\ resp'.tag # "Panic"
          /\ OpenFileTable_clear_timeout(open_table', OPEN_LEASE_TTL, clock').map
                 = open_table'
      ]_vars

\* C16: OpenLease(path) answers permitted = true exactly when the open-file
\* table has an entry for the path; it then sets the entry's last_lease to
\* now and changes neither holder count nor writer flag nor any other entry;
\* otherwise it answers permitted = false and changes nothing.
C16_OpenLeaseContract ==
    [][ last'.op = "OpenLeaseReq" =>
          LET p == from_uri(last'.uri)
          IN  /\ resp'.tag = "OpenLeaseResp"
              /\ resp'.permitted = (p \in DOMAIN open_table)
              /\ virt_fs' = virt_fs
              /\ DOMAIN open_table' = DOMAIN open_table
              /\ \A q \in (DOMAIN open_table) \ {p} : open_table'[q] = open_table[q]
              /\ (p \in DOMAIN open_table)
                    => /\ open_table'[p].last_lease = clock
                       /\ open_table'[p].holders = open_table[p].holders
                       /\ open_table'[p].write = open_table[p].write
      ]_vars

\* a lease has just been granted on a two-reader entry, moving its
\* last_lease forward
C16_Witness ==
    /\ last.op = "OpenLeaseReq"
    /\ resp = Resp_OpenLeaseResp(TRUE)
    /\ from_uri(last.uri) \in DOMAIN open_table
    /\ open_table[from_uri(last.uri)].holders = 2
    /\ open_table[from_uri(last.uri)].last_lease > 0

\* a lease has just been refused for a path whose entry the holder closed
C16_WitnessRefused ==
    /\ last.op = "OpenLeaseReq"
    /\ resp = Resp_OpenLeaseResp(FALSE)
    /\ IsFileIn(virt_fs, last.uri)

(***************************************************************************)
(* Specification of the storage-node registry used on its own:            *)
(* registrations, heartbeats and liveness queries.  A registration of an  *)
(* id that is already registered fails the assert! and ends the run.      *)
(***************************************************************************)
StoreTimes == {0, 1, 29, 30, 31}
StoreTtls == {0, 30}
StoreCandidates == StoreIds \cup {"s3"}

InitStore == InitTable

StoreInsert(store, config) ==
    /\ Running
    /\ LET r == StoreStatusesMap_insert(store_statuses, store, config)
       IN  store_statuses' = r.map /\ resp' = r.res
    /\ last' = [op |-> "insert", store |-> store, config |-> config]
    /\ UNCHANGED <<virt_fs, open_table, replicated_blocks, clock, holds>>

StoreBeat(store, now) ==
    /\ Running
    /\ LET status == StoreStatusesMap_get_mut(store_statuses, store)
       IN  store_statuses' =
               IF IsSome(status)
               THEN [store_statuses EXCEPT ![store] = StoreStatus_beat(Unwrap(status), now)]
               ELSE store_statuses
    /\ resp' = Ok
    /\ last' = [op |-> "beat", store |-> store, now |-> now]
    /\ UNCHANGED <<holds, virt_fs, open_table, replicated_blocks, clock>>

StoreIsAlive(store, ttl, now) ==
    /\ Running
    /\ store \in DOMAIN store_statuses
    /\ resp' = [tag |-> "Bool",
                value |-> StoreStatus_is_alive(store_statuses[store], ttl, now)]
    /\ last' = [op |-> "is_alive", store |-> store, ttl |-> ttl, now |-> now]
    /\ UNCHANGED <<holds, virt_fs, open_table, store_statuses, replicated_blocks, clock>>

NextStore ==
    \/ \E store \in StoreCandidates, addr \in StoreCandidates :
           StoreInsert(store, StoreConfig_new(addr))
    \/ \E store \in StoreCandidates, now \in StoreTimes : StoreBeat(store, now)
    \/ \E store \in StoreCandidates, ttl \in StoreTtls, now \in StoreTimes :
           StoreIsAlive(store, ttl, now)

SpecStore == InitStore /\ [][NextStore]_vars

\* C17: is_alive(ttl, now) is false for a registered store that has never
\* heartbeated; otherwise it is true iff now - last_heartbeat <= ttl, where
\* last_heartbeat is the time of the most recent beat.
C17_IsAliveContract ==
    [][ /\ last'.op = "is_alive" =>
              LET hb == store_statuses[last'.store].last_heartbeat
              IN  /\ resp'.tag = "Bool"
                  /\ hb = <<>> => resp'.value = FALSE
                  /\ hb # <<>> => resp'.value = (last'.now - hb[1] <= last'.ttl)
                  /\ store_statuses' = store_statuses
        /\ (last'.op = "beat" /\ last'.store \in DOMAIN store_statuses) =>
              /\ store_statuses'[last'.store].last_heartbeat = <<last'.now>>
              /\ \A other \in (DOMAIN store_statuses) \ {last'.store} :
                     store_statuses'[other] = store_statuses[other]
      ]_vars

\* a store that beat at 0 has just been found dead at now = 31 with ttl = 30
C17_Witness ==
    /\ last.op = "is_alive"
    /\ store_statuses[last.store].last_heartbeat = <<0>>
    /\ last.ttl = 30
    /\ last.now = 31
    /\ resp.value = FALSE

\* a store has just been found alive with now - last_heartbeat = ttl = 30
C17_WitnessEdge ==
    /\ last.op = "is_alive"
    /\ store_statuses[last.store].last_heartbeat = <<0>>
    /\ last.ttl = 30
    /\ last.now = 30
    /\ resp.value = TRUE

(***************************************************************************)
(* Specification of the directory tree used on its own: any sequence of   *)
(* create_node, Directory::insert on the root, get, get_mut and list.      *)
(***************************************************************************)
TreeUris ==
    { <<>>,
      Text(<<"f">>),
      Text(<<"a">>),
      Text(<<"a", "/", "f">>),
      Text(<<"f", "/", "a">>),
      Text(<<"a", "/", "a">>),
      Text(<<" ", "/", "a", "/", "/", "f">>),
      Text(<<"a", "/", "f", "/", "a">>),
      Text(<<"a", "/", "a", "/", "f">>) }

TreeNames == { Text(<<"a">>), Text(<<"f">>) }

TreeNodes == { Directory_new, new_file_node, SnapshotFile }

InitTree ==
    /\ virt_fs \in {Directory_new, SnapshotTree}
    /\ open_table = OpenFileTable_new
    /\ store_statuses = InitStores
    /\ replicated_blocks = ReplicatedBlocksMap_new
    /\ clock = 0
    /\ resp = [tag |-> "Init"]
    /\ last = [op |-> "new"]
    /\ holds = NoHolds

TreeCreateNode(uri, node) ==
    /\ IsSome(PathCursor_new(from_uri(uri)))
    /\ LET r == FsNode_create_node(virt_fs, Unwrap(PathCursor_new(from_uri(uri))), node)
       IN  /\ virt_fs' = r.node
           /\ resp' = [tag |-> "Create", res |-> r.res]
    /\ last' = [op |-> "create_node", uri |-> uri, node |-> node]
    /\ UNCHANGED <<holds, open_table, store_statuses, replicated_blocks, clock>>

TreeInsert(key, node) ==
    /\ LET r == Directory_insert(virt_fs, key, node)
       IN  /\ virt_fs' = r.dir
           /\ resp' = r.res
    /\ last' = [op |-> "insert", key |-> key, node |-> node]
    /\ UNCHANGED <<holds, open_table, store_statuses, replicated_blocks, clock>>

TreeGet(uri) ==
    /\ resp' = [tag |-> "Query", res |-> FsNode_get(virt_fs, PathCursor_new(from_uri(uri)))]
    /\ last' = [op |-> "get", uri |-> uri]
    /\ UNCHANGED <<holds, virt_fs, open_table, store_statuses, replicated_blocks, clock>>

TreeGetMut(uri) ==
    /\ resp' = [tag |-> "Query", res |-> FsNode_get_mut(virt_fs, PathCursor_new(from_uri(uri)))]
    /\ last' = [op |-> "get_mut", uri |-> uri]
    /\ UNCHANGED <<holds, virt_fs, open_table, store_statuses, replicated_blocks, clock>>

TreeList(uri) ==
    /\ resp' = [tag |-> "Query", res |-> FsNode_list(virt_fs, PathCursor_new(from_uri(uri)))]
    /\ last' = [op |-> "list", uri |-> uri]
    /\ UNCHANGED <<holds, virt_fs, open_table, store_statuses, replicated_blocks, clock>>

NextTree ==
    \/ \E uri \in TreeUris, node \in TreeNodes : TreeCreateNode(uri, node)
    \/ \E key \in TreeNames, node \in TreeNodes : TreeInsert(key, node)
    \/ \E uri \in TreeUris : TreeGet(uri)
    \/ \E uri \in TreeUris : TreeGetMut(uri)
    \/ \E uri \in TreeUris : TreeList(uri)

SpecTree == InitTree /\ [][NextTree]_vars

\* The node reached from fs by the first k segments of s, as an option:
\* none as soon as a segment is missing or has to be looked up in a file.
RECURSIVE Reach(_, _, _)
Reach(fs, s, k) ==
    IF k = 0 THEN <<fs>>
    ELSE LET parent == Reach(fs, s, k - 1)
         IN  IF parent = <<>> THEN <<>>
             ELSE IF parent[1].kind = "Directory" /\ s[k] \in DOMAIN parent[1].nodes
                  THEN <<parent[1].nodes[s[k]]>>
                  ELSE <<>>

SegsOf(uri) == segs(from_uri(uri))

RECURSIVE CountNodes(_)
CountNodes(node) ==
    IF node.kind = "File" THEN 1
    ELSE LET ks == DOMAIN node.nodes
             RECURSIVE Sum(_)
             Sum(S) == IF S = {} THEN 0
                       ELSE LET k == CHOOSE x \in S : TRUE
                            IN  CountNodes(node.nodes[k]) + Sum(S \ {k})
         IN  1 + Sum(ks)

\* what a node that is still there may have become: the same file, or the
\* same directory with at least the children it had
SameNode(old, new) ==
    /\ new.kind = old.kind
    /\ old.kind = "File" => new = old
    /\ old.kind = "Directory" => DOMAIN old.nodes \subseteq DOMAIN new.nodes

\* C18: create_node (and Directory::insert) on a name that already exists
\* fails with the name-exists error and leaves the whole tree unchanged;
\* after any creation every path that resolved before resolves to the same
\* node.
C18_CreateNeverOverwrites ==
    [][ /\ (last'.op = "create_node"
              /\ Reach(virt_fs, SegsOf(last'.uri), Len(SegsOf(last'.uri))) # <<>>) =>
              /\ resp'.res = "FileExist"
              /\ virt_fs' = virt_fs
        /\ (last'.op = "insert" /\ last'.key \in DOMAIN virt_fs.nodes) =>
              /\ resp' = DirectoryInsertError(last'.node)
              /\ virt_fs' = virt_fs
        /\ last'.op \in {"create_node", "insert"} =>
              \A uri \in TreeUris :
                  LET s == SegsOf(uri)
                      old == Reach(virt_fs, s, Len(s))
                      new == Reach(virt_fs', s, Len(s))
                  IN  old # <<>> => (new # <<>> /\ SameNode(old[1], new[1]))
      ]_vars

\* an empty file has just been refused at a/f, which holds two blocks
C18_Witness ==
    /\ last.op = "create_node"
    /\ last.uri = Text(<<"a", "/", "f">>)
    /\ last.node = new_file_node
    /\ resp.res = "FileExist"
    /\ Reach(virt_fs, SegsOf(last.uri), 2) = <<SnapshotFile>>

\* C19: after a BlockReport of kind Full the handler has answered, and the
\* reporting store is in the confirming list of a known block iff the
\* snapshot lists that block with the authoritative descriptor.
C19_FullReportReconciles ==
    [][ (last'.op = "BlockReportReq" /\ last'.ty = "Full") =>
            /\ resp'.tag # "Panic"
            /\ \E s \in StoreIds :
                   \A b \in DOMAIN replicated_blocks' :
                       (\E i \in DOMAIN replicated_blocks'[b].stores :
                            replicated_blocks'[b].stores[i] = s)
                       <=> (\E j \in DOMAIN last'.blocks :
                               /\ last'.blocks[j].id = b
                               /\ last'.blocks[j].body = replicated_blocks'[b].body)
      ]_vars

\* descent over the first n segments of s meets a directory that lacks the
\* next segment / meets a file while segments remain
MissingSegment(fs, s) ==
    \E k \in 0..(Len(s) - 1) :
        /\ Reach(fs, s, k) # <<>>
        /\ Reach(fs, s, k)[1].kind = "Directory"
        /\ s[k + 1] \notin DOMAIN Reach(fs, s, k)[1].nodes

FileInTheWay(fs, s) ==
    \E k \in 0..(Len(s) - 1) :
        /\ Reach(fs, s, k) # <<>>
        /\ Reach(fs, s, k)[1].kind = "File"

\* C20: get, get_mut and list fail with FileNotExist exactly when a
\* directory reached during descent lacks the current segment, with
\* DirectoryNotExist exactly when a file is reached while segments remain,
\* and otherwise yield the node named by the full path (the node itself for
\* an absent cursor); create_node fails with DirectoryNotExist when an
\* intermediate segment is missing or is a file, and never creates an
\* intermediate directory.
C20_ResolutionErrors ==
    [][ /\ last'.op \in {"get", "get_mut", "list"} =>
              LET s == SegsOf(last'.uri)
                  r == resp'.res
                  target == Reach(virt_fs, s, Len(s))
              IN  /\ (~r.ok /\ r.err = "FileNotExist") <=> MissingSegment(virt_fs, s)
                  /\ (~r.ok /\ r.err = "DirectoryNotExist") <=> FileInTheWay(virt_fs, s)
                  /\ r.ok => /\ target # <<>>
                             /\ last'.op \in {"get", "get_mut"} => r.node = target[1]
                             /\ last'.op = "list" =>
                                    r.visited = IF target[1].kind = "Directory"
                                                THEN VisitAll(target[1].nodes)
                                                ELSE VisitAll(<<target[1]>>)
                  /\ virt_fs' = virt_fs
        /\ last'.op = "create_node" =>
              LET s == SegsOf(last'.uri)
              IN  /\ (\E k \in 1..(Len(s) - 1) :
                          \/ Reach(virt_fs, s, k) = <<>>
                          \/ Reach(virt_fs, s, k)[1].kind = "File") =>
                         /\ resp'.res = "DirectoryNotExist"
                         /\ virt_fs' = virt_fs
                  /\ virt_fs' # virt_fs =>
                         /\ Reach(virt_fs, s, Len(s) - 1) # <<>>
                         /\ Reach(virt_fs', s, Len(s)) = <<last'.node>>
                         /\ CountNodes(virt_fs') = CountNodes(virt_fs) + 1
      ]_vars

\* get of a/f/a has just failed with DirectoryNotExist at the file a/f
C20_Witness ==
    /\ last.op = "get"
    /\ last.uri = Text(<<"a", "/", "f", "/", "a">>)
    /\ ~resp.res.ok
    /\ resp.res.err = "DirectoryNotExist"
    /\ Reach(virt_fs, SegsOf(last.uri), 2) # <<>>
    /\ Reach(virt_fs, SegsOf(last.uri), 2)[1].kind = "File"

\* create_node of a/a/f has just failed where a exists and a/a does not
C20_WitnessCreate ==
    /\ last.op = "create_node"
    /\ last.uri = Text(<<"a", "/", "a", "/", "f">>)
    /\ resp.res = "DirectoryNotExist"
    /\ Reach(virt_fs, SegsOf(last.uri), 1) # <<>>
    /\ Reach(virt_fs, SegsOf(last.uri), 2) = <<>>

\* list of f has just failed with FileNotExist
C20_WitnessList ==
    /\ last.op = "list"
    /\ last.uri = Text(<<"f">>)
    /\ ~resp.res.ok
    /\ resp.res.err = "FileNotExist"

(***************************************************************************)
(* Specification of path parsing used on its own: PathSplit::from_uri on   *)
(* every text of up to MaxUriLen characters, PathCursor::new on the        *)
(* result, and PathCursor::next along it.                                  *)
(***************************************************************************)
\* the chars of the texts: a, space, tab, slash and U+2000 (EN QUAD)
UriChars == {CodePoint("a"), CodePoint(" "), CodePoint("\t"), CodePoint("/"), 8192}

UriTexts == UNION { [1..n -> UriChars] : n \in 0..MaxUriLen }

InitPath == InitTable

PathParse(text) ==
    /\ resp' = [tag    |-> "Path",
                path   |-> from_uri(text),
                cursor |-> PathCursor_new(from_uri(text))]
    /\ last' = [op |-> "from_uri", text |-> text]
    /\ UNCHANGED <<holds, virt_fs, open_table, store_statuses, replicated_blocks, clock>>

PathNext ==
    /\ resp.tag = "Path"
    /\ IsSome(resp.cursor)
    /\ resp' = [resp EXCEPT !.cursor = PathCursor_next(Unwrap(resp.cursor))]
    /\ last' = [op |-> "next"]
    /\ UNCHANGED <<holds, virt_fs, open_table, store_statuses, replicated_blocks, clock>>

NextPath ==
    \/ \E text \in UriTexts : PathParse(text)
    \/ PathNext

SpecPath == InitPath /\ [][NextPath]_vars

\* the '/'-separated pieces of text that are not blank, each trimmed
TrimmedPieces(text) ==
    LET pieces == split(text)
        trimmed == [i \in DOMAIN pieces |-> trim(pieces[i])]
    IN  SelectSeq(trimmed, LAMBDA s : s # <<>>)

\* C21: from_uri(text) yields, in order, exactly the '/'-separated pieces of
\* text that are not empty or blank, each trimmed of surrounding whitespace
\* (so texts differing only in extra slashes or in whitespace around
\* segments parse to equal paths); PathCursor::new is None iff the path has
\* no segment.
C21_FromUriNormalises ==
    [][ last'.op = "from_uri" =>
            /\ resp'.path = TrimmedPieces(last'.text)
            /\ (resp'.cursor = <<>>) <=> (Len(resp'.path) = 0)
            /\ \A other \in UriTexts :
                   TrimmedPieces(other) = TrimmedPieces(last'.text) =>
                       from_uri(other) = resp'.path
      ]_vars

(***************************************************************************)
(* Specification of the open-file table driven by identified clients.     *)
(* A client opens a path it holds nothing on, and leases or closes a path *)
(* it was granted, also after a sweep has evicted the entry (it has not   *)
(* been told).  The calls that reach the table carry no client identity,  *)
(* as in the code.                                                         *)
(***************************************************************************)
InitClients == InitTable

ClientOpen(c, path, write, now) ==
    /\ holds[c][path] = "none"
    /\ LET r == OpenFileTable_open(open_table, path, write, now)
       IN  /\ open_table' = r.map
           /\ resp' = r.res
           /\ holds' = IF r.res = Ok
                       THEN [holds EXCEPT ![c][path] = IF write THEN "write" ELSE "read"]
                       ELSE holds
    /\ last' = [op |-> "open", client |-> c, path |-> path, write |-> write, now |-> now]
    /\ UNCHANGED <<virt_fs, store_statuses, replicated_blocks, clock>>

ClientLease(c, path, now) ==
    /\ holds[c][path] # "none"
    /\ LET r == OpenFileTable_lease(open_table, path, now)
       IN  open_table' = r.map /\ resp' = r.res
    /\ last' = [op |-> "lease", client |-> c, path |-> path, now |-> now]
    /\ UNCHANGED <<virt_fs, store_statuses, replicated_blocks, clock, holds>>

ClientClose(c, path) ==
    /\ holds[c][path] # "none"
    /\ LET r == OpenFileTable_close(open_table, path)
       IN  open_table' = r.map /\ resp' = r.res
    /\ holds' = [holds EXCEPT ![c][path] = "none"]
    /\ last' = [op |-> "close", client |-> c, path |-> path]
    /\ UNCHANGED <<virt_fs, store_statuses, replicated_blocks, clock>>

ClientsSweep(ttl, now) ==
    /\ LET r == OpenFileTable_clear_timeout(open_table, ttl, now)
           evicted == (DOMAIN open_table) \ (DOMAIN r.map)
       IN  /\ open_table' = r.map
           /\ resp' = r.res
           /\ holds' = [c \in Clients |-> [p \in TablePaths |->
                           IF p \in evicted /\ holds[c][p] \in {"read", "write"}
                           THEN "evicted" ELSE holds[c][p]]]
    /\ last' = [op |-> "clear_timeout", ttl |-> ttl, now |-> now]
    /\ UNCHANGED <<virt_fs, store_statuses, replicated_blocks, clock>>

NextClients ==
    \/ \E c \in Clients, path \in TablePaths, write \in BOOLEAN, now \in 0..MaxNow :
           ClientOpen(c, path, write, now)
    \/ \E c \in Clients, path \in TablePaths, now \in 0..MaxNow : ClientLease(c, path, now)
    \/ \E c \in Clients, path \in TablePaths : ClientClose(c, path)
    \/ \E ttl \in 0..MaxTtl, now \in 0..MaxNow : ClientsSweep(ttl, now)

SpecClients == InitClients /\ [][NextClients]_vars

\* C22: while a client's accepted write-open of a path has been neither
\* closed by that client nor evicted by a sweep, no other client's open of
\* that path is accepted.
C22_ClientExclusion ==
    [][ (last'.op = "open" /\ resp' = Ok) =>
            \A c \in Clients \ {last'.client} : holds[c][last'.path] # "write"
      ]_vars

\* C23: an Open request answered with a rejection leaves the namespace
\* tree and the open-file table exactly as they were (the table starts
\* empty); a write-open rejected by an exclusion conflict leaves no file
\* node behind.
C23_RejectedOpenNoEffect ==
    [][ (last'.op = "OpenReq" /\ resp' = Resp_OpenResp) =>
            /\ virt_fs' = virt_fs
            /\ open_table' = open_table
      ]_vars

\* a write-open of a/f has just been rejected because a/f is open
C23_Witness ==
    /\ last.op = "OpenReq"
    /\ last.write
    /\ resp = Resp_OpenResp
    /\ from_uri(last.uri) = PathAF
    /\ PathAF \in DOMAIN open_table
    /\ IsFileIn(virt_fs, last.uri)

\* a write-open has just been rejected because a directory on its way is missing
C23_WitnessNoDirectory ==
    /\ last.op = "OpenReq"
    /\ last.write
    /\ resp = Resp_OpenResp
    /\ from_uri(last.uri) = PathAF
    /\ ~ResolveIn(virt_fs, from_uri(Text(<<"a">>))).ok

\* a read-open that was accepted on a path that already had an entry
JoinedReader(l, r, table) ==
    /\ l.op = "open"
    /\ ~l.write
    /\ r = Ok
    /\ l.path \in DOMAIN table

\* C24: an accepted open for read on a path that already has a reader entry
\* changes only that entry's holder count and leaves its last_lease as it
\* was; an entry whose last lease is older than the ttl is therefore evicted
\* by a sweep that comes right after a new reader was admitted.
C24_JoinKeepsLease ==
    [][ /\ JoinedReader(last', resp', open_table) =>
              /\ DOMAIN open_table' = DOMAIN open_table
              /\ open_table'[last'.path] =
                     [open_table[last'.path] EXCEPT !.holders = @ + 1]
              /\ \A q \in (DOMAIN open_table) \ {last'.path} :
                     open_table'[q] = open_table[q]
        /\ (/\ last'.op = "clear_timeout"
            /\ last.op = "open" /\ ~last.write /\ resp = Ok
            /\ open_table[last.path].holders >= 2
            /\ last'.now - open_table[last.path].last_lease > last'.ttl) =>
              last.path \notin DOMAIN open_table'
      ]_vars

\* a second reader has just been admitted at instant 3 to an entry leased
\* at instant 0, which a sweep with ttl 2 at that instant evicts
C24_Witness ==
    /\ last.op = "open"
    /\ ~last.write
    /\ resp = Ok
    /\ last.now = 3
    /\ last.path \in DOMAIN open_table
    /\ open_table[last.path].holders = 2
    /\ open_table[last.path].last_lease = 0
    /\ last.path \notin DOMAIN OpenFileTable_clear_timeout(open_table, 2, 3).map

IsPrefix(s, t) == Len(s) <= Len(t) /\ SubSeq(t, 1, Len(s)) = s

\* every path that resolves in old resolves in new to a node of the same
\* kind, a file keeping its blocks as a prefix of its later blocks
NamespaceGrows(old, new) ==
    \A uri \in TreeUris :
        LET s == SegsOf(uri)
            o == Reach(old, s, Len(s))
            n == Reach(new, s, Len(s))
        IN  o # <<>> =>
                /\ n # <<>>
                /\ n[1].kind = o[1].kind
                /\ o[1].kind = "File" => IsPrefix(o[1].blocks, n[1].blocks)

\* C25: no request and no timer tick removes or replaces a node or removes a
\* block: a path that resolves to a file (directory) resolves to a file
\* (directory) after every step, each file's blocks extend its earlier
\* blocks, and OpenLease, Close and the timer leave the tree as it is.
C25_NamespaceOnlyGrows ==
    [][ /\ NamespaceGrows(virt_fs, virt_fs')
        /\ last'.op \in {"OpenLeaseReq", "CloseReq", "timer", "tick"} =>
               virt_fs' = virt_fs
      ]_vars

\* a write-open of the existing file a/f has just been accepted on a tree
\* that has grown by the file f; a/f still holds its two blocks
C25_Witness ==
    /\ last.op = "OpenReq"
    /\ last.write
    /\ from_uri(last.uri) = PathAF
    /\ resp = Resp_None
    /\ Reach(virt_fs, PathAF, 2) = <<SnapshotFile>>
    /\ Reach(virt_fs, from_uri(Text(<<"f">>)), 1) = <<new_file_node>>

====
